---- MODULE Spec2Model ----
(***************************************************************************)
(* thriftpy.thrift: the class cache of TPayloadMeta, the RPC client        *)
(* (TClient), the server processor (TProcessor) and the multiplexed        *)
(* processor's registration table, modelled from src/thriftpy/thrift.py.   *)
(***************************************************************************)
EXTENDS Integers, Sequences, FiniteSets, TLC

(***************************************************************************)
(* Bounds of the model.                                                    *)
(***************************************************************************)
\* instantiations of fixed-field types explored by CacheSpec and ConcSpec
MaxInst == 4

(***************************************************************************)
(* State.                                                                  *)
(***************************************************************************)
VARIABLES
    class_cache,   \* TPayloadMeta._class_cache: key -> class object (NoClass: absent)
    classes,       \* every class object type(...) has created, in creation order
    instances,     \* every instance returned: [of |-> nominal class, cls |-> its class]
    tpc,           \* ConcSpec: where each execution context is inside __call__
    tcls,          \* ConcSpec: the nominal class each context was called on
    tobj           \* ConcSpec: each context's local cls_obj

VARIABLES
    seqid,   \* TClient._seqid
    cpc,     \* the client: "idle", "waiting" (inside _recv) or "broken"
    call,    \* the client's current or last call
    hdrs,    \* the seqids of the CALL headers the client has written
    c2s,     \* client -> processor: the requests flushed and not yet read
    s2c,     \* processor -> client: the replies flushed and not yet read
    aligned, \* the processor's input from the client stands at a message boundary
    proc,    \* the processor's last run of process
    nreq     \* requests made so far

VARIABLES
    processors,  \* TMultiplexedProcessor.processors: service name -> processor
    reg,         \* the last call of register_processor
    mproc        \* the multiplexed processor's last run of process

VARIABLES
    pobj,   \* two open-storage (TPayload) instances: their __dict__, NoObj before creation
    last    \* the last operation made on an instance and its outcome

cacheVars == <<class_cache, classes, instances, tpc, tcls, tobj>>

rpcVars == <<seqid, cpc, call, hdrs, c2s, s2c, aligned, proc, nreq>>

muxVars == <<processors, reg, mproc>>

objVars == <<pobj, last>>

vars == <<cacheVars, rpcVars, muxVars, objVars>>

(***************************************************************************)
(* Python values.                                                          *)
(***************************************************************************)

\* Python values, one record shape for all of them.
None       == [tag |-> "none",  s |-> "", n |-> 0]
Str(x, i)  == [tag |-> "str",   s |-> x,  n |-> i]
IntV(i)    == [tag |-> "int",   s |-> "", n |-> i]
\* a class object (what `cls` is inside TPayloadMeta.__call__)
ClassOf(c) == [tag |-> "class", s |-> c,  n |-> 0]
\* the classes service.<api>_args and service.<api>_result
ArgsCls(api)   == [tag |-> "class", s |-> api, n |-> 1]
ResultCls(api) == [tag |-> "class", s |-> api, n |-> 2]
\* an exception instance of class c; i tells the instances apart
ExcInst(c, i) == [tag |-> "exc", s |-> c, n |-> i]

\* bool(v) as Python's `if v` takes it
Truthy(v) ==
    CASE v.tag = "none" -> FALSE
      [] v.tag = "int"  -> v.n # 0
      [] v.tag = "str"  -> v.s # ""
      [] OTHER          -> TRUE

Range(q) == {q[i] : i \in DOMAIN q}

(***************************************************************************)
(* Part 1.  TPayloadMeta._class_cache and TPayloadMeta.__call__            *)
(***************************************************************************)

\* The nominal classes a loader hands to the metaclass: direct subclasses of
\* TSPayload, each with __module__, __name__ (dotted parts) and default_spec
\* (the field names in order).  Loading one schema twice gives two nominal
\* classes with the same module and name; their specs need not agree.
Nominal ==
    << [module |-> "ab", name |-> <<"Person">>,        spec |-> <<"name", "phones">>],
       [module |-> "ab", name |-> <<"Person">>,        spec |-> <<"name">>],
       [module |-> "ab", name |-> <<"pkg", "Person">>, spec |-> <<"name", "phones">>],
       [module |-> "ab", name |-> <<"Phone">>,         spec |-> <<"number">>],
       [module |-> "ab", name |-> <<"Empty">>,         spec |-> << >>] >>

NominalIds == DOMAIN Nominal

\* cls.__name__.split('.')[-1]
ClsName(n) == Nominal[n].name[Len(Nominal[n].name)]

\* cache_key = '%s:%s' % (cls.__module__, cls_name)
CacheKey(n) == <<Nominal[n].module, ClsName(n)>>

Keys == {CacheKey(n) : n \in NominalIds}

\* No class object: what dict.get returns for a missing key.  Class objects
\* are numbered from 1 in the order type(...) created them.
NoClass == 0


Threads == {1, 2}

\* A lookup that always misses: the entry would be rebuilt on every call.
CacheGetMiss(cache, key) == NoClass

\* cls_obj = TPayloadMeta._class_cache.get(cache_key)
CacheGet(cache, key) == cache[key]

\* the class is created without __slots__, so that its instances carry a __dict__
NewClassDict(n) ==
    [key |-> CacheKey(n), name |-> ClsName(n),
     slots |-> Nominal[n].spec, default_spec |-> Nominal[n].spec, from |-> n,
     dict |-> TRUE]

\* type(cls_name, cls.__mro__, {'__slots__': fields, '__module__': ...}) with
\* default_spec and thrift_spec copied from the class that was called.  Its
\* instances carry no __dict__ (dict): the class and all its bases, the
\* nominal class and TSPayload, have __slots__.
NewClass(n) ==
    [key |-> CacheKey(n), name |-> ClsName(n),
     slots |-> Nominal[n].spec, default_spec |-> Nominal[n].spec, from |-> n,
     dict |-> FALSE]

\* TPayloadMeta._class_cache[cache_key] = cls_obj
CacheStore(cache, key, c) == [cache EXCEPT ![key] = c]

\* type.__call__(cls_obj): an instance of the class c (its number, its
\* record), made for a caller of the nominal class n; the generated __init__
\* sets every field of the class's default_spec to its default, None
NewInstance(n, c, cls) ==
    [of |-> n, cls |-> c, slots |-> [f \in Range(cls.default_spec) |-> None]]

CacheInit ==
    /\ class_cache = [k \in Keys |-> NoClass]
    /\ classes = << >>
    /\ instances = << >>
    /\ tpc = [t \in Threads |-> "idle"]
    /\ tcls = [t \in Threads |-> 1]
    /\ tobj = [t \in Threads |-> NoClass]

\* TPayloadMeta.__call__ on a direct subclass of TSPayload, run to completion
\* by one caller: look up, create and store on a miss, instantiate.
Instantiate(n) ==
    /\ Len(instances) < MaxInst
    /\ LET key == CacheKey(n)
           got == CacheGet(class_cache, key)
       IN  IF got = NoClass
           THEN /\ classes' = Append(classes, NewClass(n))
                /\ class_cache' = CacheStore(class_cache, key, Len(classes) + 1)
                /\ instances' = Append(instances, NewInstance(n, Len(classes) + 1, NewClass(n)))
           ELSE /\ UNCHANGED <<classes, class_cache>>
                /\ instances' = Append(instances, NewInstance(n, got, classes[got]))
    /\ UNCHANGED <<tpc, tcls, tobj, rpcVars, muxVars, objVars>>

\* The same method entered by several execution contexts.  Between the lookup
\* and the store the interpreter runs Python code (TPayloadMeta.__new__,
\* init_func_generator), so another context may run in between.
TLookup(t, n) ==
    /\ tpc[t] = "idle"
    /\ Len(instances) + Cardinality({u \in Threads : tpc[u] # "idle"}) < MaxInst
    /\ tcls' = [tcls EXCEPT ![t] = n]
    /\ tobj' = [tobj EXCEPT ![t] = CacheGet(class_cache, CacheKey(n))]
    /\ tpc' = [tpc EXCEPT ![t] = "looked"]
    /\ UNCHANGED <<class_cache, classes, instances, rpcVars, muxVars, objVars>>

TCreate(t) ==
    /\ tpc[t] = "looked"
    /\ tobj[t] = NoClass
    /\ classes' = Append(classes, NewClass(tcls[t]))
    /\ tobj' = [tobj EXCEPT ![t] = Len(classes) + 1]
    /\ tpc' = [tpc EXCEPT ![t] = "created"]
    /\ UNCHANGED <<class_cache, instances, tcls, rpcVars, muxVars, objVars>>

TStore(t) ==
    /\ tpc[t] = "created"
    /\ class_cache' = CacheStore(class_cache, CacheKey(tcls[t]), tobj[t])
    /\ tpc' = [tpc EXCEPT ![t] = "stored"]
    /\ UNCHANGED <<classes, instances, tcls, tobj, rpcVars, muxVars, objVars>>

TReturn(t) ==
    /\ \/ tpc[t] = "stored"
       \/ tpc[t] = "looked" /\ tobj[t] # NoClass
    /\ instances' = Append(instances, NewInstance(tcls[t], tobj[t], classes[tobj[t]]))
    /\ tpc' = [tpc EXCEPT ![t] = "idle"]
    /\ UNCHANGED <<class_cache, classes, tcls, tobj, rpcVars, muxVars, objVars>>

(***************************************************************************)
(* Part 2.  Values, open-storage instances and the service descriptor      *)
(***************************************************************************)

FieldNames(spec) == {spec[i].name : i \in DOMAIN spec}

IndexOf(spec, f) == CHOOSE i \in DOMAIN spec : spec[i].name = f

\* A generated __init__(self, f1=d1, ..., fn=dn) (init_func_generator) bound to
\* the positional arguments pos and the keyword arguments kw: a TypeError on
\* too many positionals, an unknown keyword or a field given twice; else
\* self.f = f for every field, in spec order.
InitBind(spec, pos, kw) ==
    LET bad == \/ Len(pos) > Len(spec)
               \/ \E f \in DOMAIN kw : f \notin FieldNames(spec)
               \/ \E i \in DOMAIN pos : i <= Len(spec) /\ spec[i].name \in DOMAIN kw
    IN  IF bad
        THEN [ok |-> FALSE, obj |-> << >>]
        ELSE [ok |-> TRUE,
              obj |-> [f \in FieldNames(spec) |->
                         IF IndexOf(spec, f) <= Len(pos) THEN pos[IndexOf(spec, f)]
                         ELSE IF f \in DOMAIN kw THEN kw[f]
                         ELSE spec[IndexOf(spec, f)].default]]

\* TPayloadMeta.__call__ on a class whose __mro__[1] is not TSPayload:
\* super(TPayloadMeta, cls).__call__(cls, *args, **kw).  The bound super call
\* already passes cls as the type, so __init__ receives cls as its first
\* positional argument after self.
MetaCall(cls, spec, pos, kw) == InitBind(spec, <<cls>> \o pos, kw)

\* setattr(obj, k, v) for every k of attrs
SetAttrs(obj, attrs) ==
    [f \in DOMAIN obj \cup DOMAIN attrs |-> IF f \in DOMAIN attrs THEN attrs[f] ELSE obj[f]]

\* oprot.write_struct(obj): the fields of the thrift_spec that hold a value
WriteStruct(obj, declared) ==
    [f \in {g \in DOMAIN obj \cap declared : obj[g] # None} |-> obj[f]]

\* iprot.read_struct(obj): every declared field on the wire is set on the instance
ReadStruct(obj, wire, declared) ==
    SetAttrs(obj, [f \in DOMAIN wire \cap declared |-> wire[f]])

\* TMessageType
CALL == 1
REPLY == 2
EXCEPTION == 3
ONEWAY == 4

\* TApplicationException codes
UNKNOWN == 0
UNKNOWN_METHOD == 1
MISSING_RESULT == 5
INTERNAL_ERROR == 6

\* TApplicationException.__init__(self, type=UNKNOWN, message=None)
AppExcSpec ==
    << [name |-> "type", default |-> IntV(UNKNOWN)], [name |-> "message", default |-> None] >>

\* TApplicationException(*pos, **kw), through the metaclass
NewAppExc(pos, kw) == MetaCall(ClassOf("TApplicationException"), AppExcSpec, pos, kw)

\* The exception classes a handler may raise: ExcB derives from ExcA, ExcU is
\* declared by no method.
Supers(c) == IF c = "ExcB" THEN {"ExcA", "ExcB"} ELSE {c}

\* isinstance(e, exc_cls) in handle_exception
IsInstance(e, c) == e.tag = "exc" /\ c \in Supers(e.s)

Thr(f, c) == [name |-> f, cls |-> c]

Method(a, r, t, o) == [args |-> a, ret |-> r, throws |-> t, oneway |-> o]

\* The service descriptor: per method the args fields in ascending field id,
\* whether the result has a success field (id 0), the throws fields in
\* ascending field id with their exception classes, and the oneway flag.
Service ==
    ( "get"  :> Method(<<"name">>,   TRUE,  <<Thr("e1", "ExcA"), Thr("e2", "ExcB")>>, FALSE)
   @@ "find" :> Method(<<"a", "b">>, TRUE,  << >>,                                  FALSE)
   @@ "del"  :> Method(<<"name">>,   FALSE, <<Thr("e1", "ExcB"), Thr("e2", "ExcA")>>, FALSE)
   @@ "noop" :> Method(<<"a">>,      FALSE, << >>,                                  FALSE)
   @@ "fire" :> Method(<<"m">>,      FALSE, <<Thr("e1", "ExcA")>>,                  TRUE)
   @@ "ping" :> Method(<< >>,        FALSE, << >>,                                  TRUE) )

\* service.thrift_services
thrift_services == DOMAIN Service

\* default_spec of <api>_args: every field defaults to None
ArgsSpec(api) ==
    [i \in DOMAIN Service[api].args |-> [name |-> Service[api].args[i], default |-> None]]

\* the result fields in declared order: success first, then the throws
ResultFields(api) ==
    (IF Service[api].ret THEN <<"success">> ELSE << >>)
        \o [i \in DOMAIN Service[api].throws |-> Service[api].throws[i].name]

\* default_spec of <api>_result
ResultSpec(api) ==
    [i \in DOMAIN ResultFields(api) |-> [name |-> ResultFields(api)[i], default |-> None]]

\* getattr(service, api + "_args")()
NewArgs(api) == MetaCall(ArgsCls(api), ArgsSpec(api), << >>, << >>)

\* getattr(service, api + "_result")()
NewResult(api) == MetaCall(ResultCls(api), ResultSpec(api), << >>, << >>)

\* args2kwargs(thrift_spec, *args): dict(zip(names sorted by field id, args))
args2kwargs(names, pos) ==
    [f \in {names[i] : i \in DOMAIN names \cap DOMAIN pos} |->
        pos[CHOOSE i \in DOMAIN names \cap DOMAIN pos : names[i] = f]]

\* kwargs.update(_kw)
DictUpdate(d, u) == [f \in DOMAIN d \cup DOMAIN u |-> IF f \in DOMAIN u THEN u[f] ELSE d[f]]

(***************************************************************************)
(* Part 3.  TProcessor                                                     *)
(***************************************************************************)

\* A message on the wire: the header (api, mtype, seqid) and the struct that
\* follows it.  req, by, hout and hval are bookkeeping, not wire content: the
\* request a message belongs to, who wrote it and, on a reply of the processor,
\* what the handler did.
Msg(api, mtype, sid, body, req, by, hout, hval) ==
    [api |-> api, mtype |-> mtype, seqid |-> sid, body |-> body,
     req |-> req, by |-> by, hout |-> hout, hval |-> hval]

NoMsg == Msg("", 0, 0, << >>, 0, "", "none", None)

MinOf(S) == CHOOSE x \in S : \A y \in S : x <= y

\* An exception that no declared field matches is swallowed instead of re-raised.
handle_exception_swallow(e, api) ==
    LET t == Service[api].throws
        hit == {i \in DOMAIN t : IsInstance(e, t[i].cls)}
    IN  IF hit = {} THEN [caught |-> TRUE, field |-> "success"]
        ELSE [caught |-> TRUE, field |-> t[MinOf(hit)].name]

\* TProcessor.handle_exception: the fields of result.thrift_spec in ascending
\* id, success skipped; the first whose class e is an instance of is set to e;
\* with none, the exception is re-raised.
handle_exception(e, api) ==
    LET t == Service[api].throws
        hit == {i \in DOMAIN t : IsInstance(e, t[i].cls)}
    IN  IF hit = {} THEN [caught |-> FALSE, field |-> ""]
        ELSE [caught |-> TRUE, field |-> t[MinOf(hit)].name]

\* what one run of process did, for the claims to speak about
ProcRec(m, known, skipped, ended, h, hargs, result, assigned, wrote, raised) ==
    [req |-> m.req, api |-> m.api, seqid |-> m.seqid, known |-> known,
     skipped |-> skipped, ended |-> ended, invoked |-> h.k # "none",
     hout |-> h.k, hval |-> h.v, hargs |-> hargs,
     result |-> result, assigned |-> assigned, wrote |-> wrote,
     flushed |-> Len(wrote), raised |-> raised]

\* the handler was not called
NotCalled == [k |-> "none", v |-> None]

NoProc == ProcRec(NoMsg, FALSE, FALSE, FALSE, NotCalled, << >>, << >>, {}, << >>, None)

\* TProcessor.send_exception
send_exception(m, exc) ==
    <<Msg(m.api, EXCEPTION, m.seqid, WriteStruct(exc, FieldNames(AppExcSpec)), m.req, "processor", "none", None)>>

\* the reply is written with seqid 0 instead of the seqid of the request
send_result_seqid0(m, result, hout, hval) ==
    <<Msg(m.api, REPLY, 0, WriteStruct(result, Range(ResultFields(m.api))), m.req, "processor", hout, hval)>>

\* TProcessor.send_result
send_result(m, result, hout, hval) ==
    <<Msg(m.api, REPLY, m.seqid, WriteStruct(result, Range(ResultFields(m.api))), m.req, "processor", hout, hval)>>

\* TProcessor.process on the request m, the handler doing h (h.k: "return" or
\* "raise"; h.v: the value returned or the exception raised).  process_in is
\* inlined: its four exits are the four outer branches.
process(m, h) ==
    IF m.api \notin thrift_services
    THEN \* skip the struct, read the message end, answer UNKNOWN_METHOD
         LET x == NewAppExc(<<IntV(UNKNOWN_METHOD)>>, << >>)
         IN  IF x.ok
             THEN ProcRec(m, FALSE, TRUE, TRUE, NotCalled, << >>, x.obj, {},
                          send_exception(m, x.obj), None)
             ELSE ProcRec(m, FALSE, TRUE, TRUE, NotCalled, << >>, << >>, {}, << >>,
                          ExcInst("TypeError", m.req))
    ELSE LET a == NewArgs(m.api)
             r == NewResult(m.api)
         IN  IF ~a.ok
             THEN \* args() failed: the header is read, the struct is not
                  ProcRec(m, TRUE, FALSE, FALSE, NotCalled, << >>, << >>, {}, << >>,
                          ExcInst("TypeError", m.req))
             ELSE IF ~r.ok
             THEN \* result() failed after the request was read to its end
                  ProcRec(m, TRUE, FALSE, TRUE, NotCalled, << >>, << >>, {}, << >>,
                          ExcInst("TypeError", m.req))
             ELSE LET args == ReadStruct(a.obj, m.body, Range(Service[m.api].args))
                      names == Service[m.api].args
                      hargs == [i \in DOMAIN names |-> args[names[i]]]
                      he == handle_exception(h.v, m.api)
                      field == IF h.k = "return" THEN "success" ELSE he.field
                      thrown == h.k = "raise" /\ ~he.caught
                      result == IF thrown THEN r.obj ELSE SetAttrs(r.obj, field :> h.v)
                  IN  ProcRec(m, TRUE, FALSE, TRUE, h, hargs, result,
                              IF thrown THEN {} ELSE {field},
                              IF thrown \/ Service[m.api].oneway THEN << >>
                              ELSE send_result(m, result, h.k, h.v),
                              IF thrown THEN h.v ELSE None)

(***************************************************************************)
(* Part 4.  TClient                                                        *)
(***************************************************************************)

\* `raise v`: an exception instance is raised as it is; anything else makes
\* the raise statement itself fail with a TypeError
RaiseOf(v, req) == IF v.tag = "exc" THEN v ELSE ExcInst("TypeError", req)

\* what one call of the client did, for the claims to speak about
CallRec(req, api, sent, reads, decoded, ended, kind, val, app, reply) ==
    [req |-> req, api |-> api, sent |-> sent, reads |-> reads, decoded |-> decoded,
     ended |-> ended, kind |-> kind, val |-> val, app |-> app, reply |-> reply]

NoCall == CallRec(0, "", FALSE, 0, "none", FALSE, "idle", None, << >>, NoMsg)

\* TClient._recv(api) on the reply m: the call's record when it returns or raises
recv(api, m, req) ==
    IF m.mtype = EXCEPTION
    THEN LET x == NewAppExc(<< >>, << >>)
         IN  CallRec(req, api, TRUE, 1, "appexc", TRUE, "raise",
                     ExcInst("TApplicationException", req),
                     ReadStruct(x.obj, m.body, FieldNames(AppExcSpec)), m)
    ELSE LET r == NewResult(api)
             fields == ResultFields(api)
         IN  IF ~r.ok
             THEN \* result() failed: the header is read, the struct is not
                  CallRec(req, api, TRUE, 1, "none", FALSE, "raise",
                          ExcInst("TypeError", req), << >>, m)
             ELSE LET result == ReadStruct(r.obj, m.body, Range(fields))
                      thrown == {i \in DOMAIN fields :
                                    fields[i] # "success" /\ Truthy(result[fields[i]])}
                      missing == NewAppExc(<<IntV(MISSING_RESULT)>>, << >>)
                  IN  IF "success" \in DOMAIN result /\ result["success"] # None
                      THEN CallRec(req, api, TRUE, 1, "result", TRUE, "return",
                                   result["success"], << >>, m)
                      ELSE IF Len(fields) = 0
                      THEN CallRec(req, api, TRUE, 1, "result", TRUE, "return",
                                   None, << >>, m)
                      ELSE IF thrown # {}
                      THEN CallRec(req, api, TRUE, 1, "result", TRUE, "raise",
                                   RaiseOf(result[fields[MinOf(thrown)]], req), << >>, m)
                      ELSE IF "success" \in DOMAIN result
                      THEN CallRec(req, api, TRUE, 1, "result", TRUE, "raise",
                                   ExcInst("TApplicationException", req), missing.obj, m)
                      ELSE CallRec(req, api, TRUE, 1, "result", TRUE, "return",
                                   None, << >>, m)

\* requests (calls of the client and requests of other peers) explored
MaxCalls == 2


RpcInit ==
    /\ seqid = 0
    /\ cpc = "idle"
    /\ call = NoCall
    /\ hdrs = << >>
    /\ c2s = << >>
    /\ s2c = << >>
    /\ aligned = TRUE
    /\ proc = NoProc
    /\ nreq = 0

\* the positional and keyword argument values a caller passes
PosArg(i) == Str("pos", i)
KwArg == Str("kw", 0)

\* TClient._req(api, *pos, **kw) up to the point where it returns (oneway),
\* raises, or blocks in _recv.  __getattr__ admits only declared methods.
ClientCall(api, npos, kwnames) ==
    /\ cpc = "idle"
    /\ nreq < MaxCalls
    /\ LET m == Service[api]
           pos == [i \in 1..npos |-> PosArg(i)]
           kw == [f \in kwnames |-> KwArg]
           kwargs == DictUpdate(kw, args2kwargs(m.args, pos))
           a == NewArgs(api)
           req == nreq + 1
       IN  /\ nreq' = req
           \* _send: write_message_begin(_api, CALL, self._seqid)
           /\ hdrs' = Append(hdrs, seqid)
           /\ IF ~a.ok
              THEN \* args() failed after the header was written: nothing is flushed
                   /\ cpc' = "broken"
                   /\ call' = CallRec(req, api, FALSE, 0, "none", FALSE, "raise",
                                      ExcInst("TypeError", req), << >>, NoMsg)
                   /\ c2s' = c2s
              ELSE /\ c2s' = Append(c2s,
                         Msg(api, CALL, seqid,
                             WriteStruct(SetAttrs(a.obj, kwargs), Range(m.args)),
                             req, "client", "none", None))
                   /\ IF m.oneway
                      THEN /\ cpc' = "idle"
                           /\ call' = CallRec(req, api, TRUE, 0, "none", FALSE, "return",
                                              None, << >>, NoMsg)
                      ELSE /\ cpc' = "waiting"
                           /\ call' = CallRec(req, api, TRUE, 0, "none", FALSE, "pending",
                                              None, << >>, NoMsg)
    /\ UNCHANGED <<seqid, s2c, aligned, proc, cacheVars, muxVars, objVars>>

\* TClient._recv: the blocked call reads the next reply
ClientRecv ==
    /\ cpc = "waiting"
    /\ s2c # << >>
    /\ call' = recv(call.api, Head(s2c), call.req)
    /\ s2c' = Tail(s2c)
    /\ cpc' = IF call'.ended THEN "idle" ELSE "broken"
    /\ UNCHANGED <<seqid, hdrs, c2s, aligned, proc, nreq, cacheVars, muxVars, objVars>>

\* what a handler method may do: return a value or None, or raise
HandlerDoes(req) ==
    { [k |-> "return", v |-> Str("val", req)], [k |-> "return", v |-> None],
      [k |-> "raise", v |-> ExcInst("ExcA", req)], [k |-> "raise", v |-> ExcInst("ExcB", req)],
      [k |-> "raise", v |-> ExcInst("ExcU", req)] }

\* TProcessor.process(iprot, oprot) on the client's next request
ServerProcess ==
    /\ aligned
    /\ c2s # << >>
    /\ \E h \in HandlerDoes(Head(c2s).req) : proc' = process(Head(c2s), h)
    /\ s2c' = s2c \o proc'.wrote
    /\ aligned' = proc'.ended
    /\ c2s' = Tail(c2s)
    /\ UNCHANGED <<seqid, cpc, call, hdrs, nreq, cacheVars, muxVars, objVars>>

\* the seqids another peer writes in its requests (the client's own is 0)
PeerSeqIds == {7}

\* the request names another peer may send: declared ones and an undeclared one
PeerApis == thrift_services \cup {"zzz"}

\* TProcessor.process(iprot, oprot) on a connection of another peer, which has
\* sent the request (api, CALL, sid) with the given args fields set.
ServerProcessPeer(api, sid, fields) ==
    /\ nreq < MaxCalls
    /\ nreq' = nreq + 1
    /\ \E h \in HandlerDoes(nreq + 1) :
           proc' = process(Msg(api, CALL, sid, [f \in fields |-> Str("peer", 0)],
                               nreq + 1, "peer", "none", None), h)
    /\ UNCHANGED <<seqid, cpc, call, hdrs, c2s, s2c, aligned, cacheVars, muxVars, objVars>>

\* the values a foreign server may put in a result field
PeerValue(api, f) ==
    IF f = "success" THEN Str("peer", 0)
    ELSE ExcInst(Service[api].throws[CHOOSE i \in DOMAIN Service[api].throws :
                                         Service[api].throws[i].name = f].cls, 0)

\* A server that is not this processor reads the client's request and answers
\* with a reply of its own making.
PeerReply(mtype, fields) ==
    /\ cpc = "waiting"
    /\ c2s # << >>
    /\ LET m == Head(c2s)
       IN  /\ fields \subseteq (IF mtype = REPLY THEN Range(ResultFields(m.api)) ELSE {"type"})
           /\ s2c' = Append(s2c,
                  Msg(m.api, mtype, m.seqid,
                      IF mtype = REPLY THEN [f \in fields |-> PeerValue(m.api, f)]
                      ELSE [f \in fields |-> IntV(UNKNOWN_METHOD)],
                      m.req, "peer", "none", None))
    /\ c2s' = Tail(c2s)
    /\ UNCHANGED <<seqid, cpc, call, hdrs, aligned, proc, nreq, cacheVars, muxVars, objVars>>

Next ==
    \/ \E api \in thrift_services, npos \in 0..2 :
          \E kwnames \in SUBSET Range(Service[api].args) : ClientCall(api, npos, kwnames)
    \/ ClientRecv
    \/ ServerProcess
    \/ \E api \in PeerApis, sid \in PeerSeqIds :
          \E fields \in SUBSET (IF api \in thrift_services THEN Range(Service[api].args) ELSE {"x"}) :
              ServerProcessPeer(api, sid, fields)
    \/ \E mtype \in {REPLY, EXCEPTION}, fields \in SUBSET {"success", "e1", "e2", "type"} :
          PeerReply(mtype, fields)

(***************************************************************************)
(* Part 5.  TMultiplexedProcessor: the registration table                  *)
(***************************************************************************)

\* the service names and the processor objects offered for registration
ServiceNames == {"Addr", "Calc"}
Processors == 1..3

\* no processor: the name is not a key of self.processors
NoProcessor == 0

RegRec(name, p, before, raised, app) ==
    [name |-> name, processor |-> p, before |-> before, raised |-> raised, app |-> app]

\* TMultiplexedProcessor.SEPARATOR
SEPARATOR == ":"

\* A method name on the wire, as the sequence of its pieces: a piece is the
\* separator or a run of other characters ("Addr:get" is <<"Addr", ":", "get">>).
\* api.split(SEPARATOR): the strings between the separators
RECURSIVE Split(_, _)
Split(name, sep) ==
    IF name = << >> THEN <<"">>
    ELSE LET rest == Split(Tail(name), sep)
         IN  IF Head(name) = sep THEN <<"">> \o rest
             ELSE <<Head(name) \o rest[1]>> \o Tail(rest)

\* every message type is taken for a call
IsCallKindAny(mtype) == TRUE

\* type in (TMessageType.CALL, TMessageType.ONEWAY)
IsCallKind(mtype) == mtype \in {CALL, ONEWAY}

\* TMultiplexedProcessor.SEPARATOR in api
HasSeparator(name) == \E i \in DOMAIN name : name[i] = SEPARATOR

\* service_name in self.processors
Registered(procs, service_name) ==
    service_name \in DOMAIN procs /\ procs[service_name] # NoProcessor

\* the processor of whichever name was registered, not of the name asked for
GetProcessorAny(procs, service_name) ==
    procs[CHOOSE n \in DOMAIN procs :
             /\ procs[n] # NoProcessor
             /\ \A k \in DOMAIN procs : procs[k] # NoProcessor => procs[n] <= procs[k]]

\* proc = self.processors[service_name]
GetProcessor(procs, service_name) == procs[service_name]

\* The services of the registered processors.  Both declare a method get, with
\* different args and throws.
MuxServices ==
    ( "A" :> ( "get"  :> Method(<<"name">>,   TRUE,  <<Thr("e1", "ExcA")>>, FALSE)
            @@ "ping" :> Method(<< >>,        FALSE, << >>,                 TRUE) )
   @@ "B" :> ( "get"  :> Method(<<"a", "b">>, TRUE,  << >>,                 FALSE)
            @@ "put"  :> Method(<<"a">>,      FALSE, <<Thr("e1", "ExcB")>>, TRUE) ) )

\* processor p is TProcessor(service, handler): ServiceOf[p] is its _service,
\* and its _handler is a handler object of its own, handler p
ServiceOf == <<"A", "B", "A">>

\* the classes <api>_args (kind 1) and <api>_result (kind 2) of a service
SvcCls(svc, api, kind) == [tag |-> "class", s |-> svc \o "." \o api, n |-> kind]

\* default_spec of the args class of a method: every field defaults to None
MethArgsSpec(meth) ==
    [i \in DOMAIN meth.args |-> [name |-> meth.args[i], default |-> None]]

\* the result fields of a method in declared order: success first, then the throws
MethResultFields(meth) ==
    (IF meth.ret THEN <<"success">> ELSE << >>)
        \o [i \in DOMAIN meth.throws |-> meth.throws[i].name]

\* default_spec of the result class of a method
MethResultSpec(meth) ==
    [i \in DOMAIN MethResultFields(meth) |->
        [name |-> MethResultFields(meth)[i], default |-> None]]

\* TProcessor.handle_exception on the result of a method of a registered service
meth_handle_exception(e, meth) ==
    LET hit == {i \in DOMAIN meth.throws : IsInstance(e, meth.throws[i].cls)}
    IN  IF hit = {} THEN [caught |-> FALSE, field |-> ""]
        ELSE [caught |-> TRUE, field |-> meth.throws[MinOf(hit)].name]

\* a request as the multiplexed processor reads it
MuxMsg(name, mtype, sid, body) == [name |-> name, mtype |-> mtype, seqid |-> sid, body |-> body]

\* a message as the multiplexed processor writes it
OutMsg(api, mtype, sid, body) == [api |-> api, mtype |-> mtype, seqid |-> sid, body |-> body]

\* what one run of the multiplexed processor's process did
MuxRec(m, service_name, api, target, skipped, ended, h, argscls, hargs, result, wrote, raised) ==
    [name |-> m.name, mtype |-> m.mtype, seqid |-> m.seqid,
     service_name |-> service_name, api |-> api, target |-> target,
     skipped |-> skipped, ended |-> ended, invoked |-> h.k # "none",
     handler |-> IF h.k # "none" THEN target ELSE NoProcessor,
     method |-> IF h.k # "none" THEN api ELSE "",
     hout |-> h.k, hval |-> h.v, argscls |-> argscls, hargs |-> hargs,
     result |-> result, wrote |-> wrote, raised |-> raised]

\* an error raised before the request was told apart: only the header is read
MuxRaised(m, service_name, api, target, exc) ==
    MuxRec(m, service_name, api, target, FALSE, FALSE, NotCalled, None, << >>, << >>, << >>,
           ExcInst(exc, 0))

NoMuxProc ==
    MuxRec(MuxMsg(<< >>, 0, 0, << >>), "", "", NoProcessor, FALSE, FALSE, NotCalled,
           None, << >>, << >>, << >>, None)

MuxInit ==
    /\ processors = [n \in ServiceNames |-> NoProcessor]
    /\ reg = RegRec("", NoProcessor, processors, None, << >>)
    /\ mproc = NoMuxProc

\* TApplicationException(type=INTERNAL_ERROR, message='processor for ... already registered')
AlreadyRegistered(name) ==
    NewAppExc(<< >>, "type" :> IntV(INTERNAL_ERROR) @@ "message" :> Str("already registered", 0))

\* TMultiplexedProcessor.register_processor(service_name, processor)
register_processor(name, p) ==
    /\ IF processors[name] # NoProcessor
       THEN LET x == AlreadyRegistered(name)
            IN  /\ reg' = IF x.ok
                          THEN RegRec(name, p, processors,
                                      ExcInst("TApplicationException", 0), x.obj)
                          ELSE \* building the exception failed
                               RegRec(name, p, processors, ExcInst("TypeError", 0), << >>)
                /\ processors' = processors
       ELSE /\ processors' = [processors EXCEPT ![name] = p]
            /\ reg' = RegRec(name, p, processors, None, << >>)
    /\ UNCHANGED <<mproc, cacheVars, rpcVars, objVars>>

\* TMultiplexedProcessor.process(iprot, oprot) on the request m with the
\* registrations procs, the handler method doing h if it is called: the
\* overriding process_in, then the inherited TProcessor.process.
mux_process(procs, m, h) ==
    IF ~IsCallKind(m.mtype) THEN MuxRaised(m, "", "", NoProcessor, "TException")
    ELSE IF ~HasSeparator(m.name) THEN MuxRaised(m, "", "", NoProcessor, "TException")
    ELSE IF Len(Split(m.name, SEPARATOR)) # 2
    THEN \* service_name, api = ... cannot unpack
         MuxRaised(m, "", "", NoProcessor, "ValueError")
    ELSE LET service_name == Split(m.name, SEPARATOR)[1]
             api == Split(m.name, SEPARATOR)[2]
         IN  IF ~Registered(procs, service_name)
             THEN \* skip the struct, read the message end, answer UNKNOWN_METHOD
                  LET x == NewAppExc(<<IntV(UNKNOWN_METHOD)>>, << >>)
                  IN  IF x.ok
                      THEN MuxRec(m, service_name, api, NoProcessor, TRUE, TRUE, NotCalled,
                                  None, << >>, x.obj,
                                  <<OutMsg(api, EXCEPTION, m.seqid,
                                           WriteStruct(x.obj, FieldNames(AppExcSpec)))>>,
                                  None)
                      ELSE MuxRec(m, service_name, api, NoProcessor, TRUE, TRUE, NotCalled,
                                  None, << >>, << >>, << >>, ExcInst("TypeError", 0))
             ELSE LET p == GetProcessor(procs, service_name)
                      svc == ServiceOf[p]
                  IN  IF api \notin DOMAIN MuxServices[svc]
                      THEN \* getattr(proc._service, api + "_args") finds nothing
                           MuxRaised(m, service_name, api, p, "AttributeError")
                      ELSE LET meth == MuxServices[svc][api]
                               a == MetaCall(SvcCls(svc, api, 1), MethArgsSpec(meth), << >>, << >>)
                               r == MetaCall(SvcCls(svc, api, 2), MethResultSpec(meth), << >>, << >>)
                           IN  IF ~a.ok
                               THEN MuxRaised(m, service_name, api, p, "TypeError")
                               ELSE IF ~r.ok
                               THEN MuxRec(m, service_name, api, p, FALSE, TRUE, NotCalled,
                                           SvcCls(svc, api, 1), << >>, << >>, << >>,
                                           ExcInst("TypeError", 0))
                               ELSE LET args == ReadStruct(a.obj, m.body, Range(meth.args))
                                        hargs == [i \in DOMAIN meth.args |-> args[meth.args[i]]]
                                        he == meth_handle_exception(h.v, meth)
                                        field == IF h.k = "return" THEN "success" ELSE he.field
                                        thrown == h.k = "raise" /\ ~he.caught
                                        result == IF thrown THEN r.obj
                                                  ELSE SetAttrs(r.obj, field :> h.v)
                                    IN  MuxRec(m, service_name, api, p, FALSE, TRUE, h,
                                               SvcCls(svc, api, 1), hargs, result,
                                               IF thrown \/ meth.oneway THEN << >>
                                               ELSE <<OutMsg(api, REPLY, m.seqid,
                                                        WriteStruct(result,
                                                            Range(MethResultFields(meth))))>>,
                                               IF thrown THEN h.v ELSE None)

\* the method names a peer may put in a request header: of a registered or an
\* unregistered service, without a separator, and with two of them
MuxNames ==
    { <<s, SEPARATOR, a>> : s \in ServiceNames, a \in {"get", "put"} }
        \cup { <<"Addr", SEPARATOR, "ping">>, <<"Zed", SEPARATOR, "get">>, <<"get">>,
               <<"Addr", SEPARATOR, "get", SEPARATOR, "x">> }

\* the args fields a peer sets in a request
MuxBodies == { << >>, [f \in {"name", "a", "b"} |-> Str("peer", 0)] }

\* what a handler method of a registered processor may do
MuxHandlerDoes ==
    { [k |-> "return", v |-> Str("val", 0)], [k |-> "raise", v |-> ExcInst("ExcA", 0)],
      [k |-> "raise", v |-> ExcInst("ExcU", 0)] }

\* the seqids a peer writes in its requests
MuxSeqIds == {7}

\* TMultiplexedProcessor.process(iprot, oprot) on a request a peer has sent
MuxProcess(name, mtype, sid, body) ==
    /\ \E h \in MuxHandlerDoes : mproc' = mux_process(processors, MuxMsg(name, mtype, sid, body), h)
    /\ UNCHANGED <<processors, reg, cacheVars, rpcVars, objVars>>

MuxNext ==
    \/ \E name \in ServiceNames, p \in Processors : register_processor(name, p)
    \/ \E name \in MuxNames, mtype \in {CALL, REPLY, EXCEPTION, ONEWAY}, sid \in MuxSeqIds :
          \E body \in MuxBodies : MuxProcess(name, mtype, sid, body)

(***************************************************************************)
(* Part 6.  Instances: attributes, equality, representation, state         *)
(***************************************************************************)

\* fixed-field instances explored by FixedSpec
MaxObj == 2

\* An exception raised by an operation, or its result
Raised(exc) == [ok |-> FALSE, exc |-> exc, v |-> None]
Result(v) == [ok |-> TRUE, exc |-> "", v |-> v]

\* the __slots__ attribute of a nominal class, which the loader fills with the
\* names of the fields
NominalSlots(n) == Nominal[n].spec

\* getattr(cls, '__slots__', tuple()) for cls in type(self).__mro__, chained:
\* the class itself, the nominal class it was created from (cls.__mro__ are
\* its bases), TSPayload with its empty tuple, and object with none
SlotKeys(c) == classes[c].slots \o NominalSlots(classes[c].from) \o << >>

\* operator.attrgetter(*keys)(obj): needs one name at least; with one name the
\* value itself, with more the tuple of the values
AttrGetter(keys, slots) ==
    IF Len(keys) = 0 THEN Raised("TypeError")
    ELSE IF \E k \in DOMAIN keys : keys[k] \notin DOMAIN slots THEN Raised("AttributeError")
    ELSE IF Len(keys) = 1 THEN Result([single |-> TRUE, one |-> slots[keys[1]], many |-> << >>])
    ELSE Result([single |-> FALSE, one |-> None,
                 many |-> [k \in DOMAIN keys |-> slots[keys[k]]]])

\* iter(v) on one value: a string of v.n characters gives its characters,
\* None and numbers are not iterable
Iterate(v) ==
    IF v.tag = "str" THEN Result([k \in 1..v.n |-> [tag |-> "char", s |-> v.s, n |-> k]])
    ELSE Raised("TypeError")

\* zip(keys, values), as a tuple
Zip(keys, values) ==
    [k \in 1..(IF Len(keys) < Len(values) THEN Len(keys) ELSE Len(values)) |->
        <<keys[k], values[k]>>]

\* TSPayload.__getstate__ of an instance of class c holding slots
getstate(c, slots) ==
    LET keys == SlotKeys(c)
        g == AttrGetter(keys, slots)
    IN  IF ~g.ok THEN g
        ELSE IF g.v.single
        THEN IF Iterate(g.v.one).ok THEN Result(Zip(keys, Iterate(g.v.one).v))
             ELSE Iterate(g.v.one)
        ELSE Result(Zip(keys, g.v.many))

\* setattr(obj, name, v) on an instance of the class cls: a name of the
\* class's __slots__ is stored; any other name only if instances carry a
\* __dict__
setattr(cls, slots, name, v) ==
    IF name \in Range(cls.slots) \/ cls.dict
    THEN Result([f \in DOMAIN slots \cup {name} |-> IF f = name THEN v ELSE slots[f]])
    ELSE Raised("AttributeError")

\* getattr(obj, name)
getattr(slots, name) ==
    IF name \in DOMAIN slots THEN Result(slots[name]) ELSE Raised("AttributeError")

\* TSPayload.__setstate__: setattr(self, k, v) for k, v in state, in order
RECURSIVE setstate(_, _, _)
setstate(cls, slots, state) ==
    IF state = << >> THEN Result(slots)
    ELSE LET r == setattr(cls, slots, Head(state)[1], Head(state)[2])
         IN  IF r.ok THEN setstate(cls, r.v, Tail(state)) ELSE r

\* the types an instance may be checked against: a nominal class, a class
\* created by the metaclass, or TSPayload itself
NominalType(n) == [kind |-> "nominal", id |-> n]
CanonicalType(c) == [kind |-> "canonical", id |-> c]
BaseType == [kind |-> "TSPayload", id |-> 0]

\* the key a nominal or created class has in the cache
TypeKey(t) == IF t.kind = "nominal" THEN CacheKey(t.id) ELSE classes[t.id].key

\* type.__instancecheck__(cls, inst): the instance's class is cls or derives
\* from it; a created class derives from the nominal class it was created
\* from and from TSPayload
TypeInstanceCheck(t, c) ==
    t \in {CanonicalType(c), NominalType(classes[c].from), BaseType}

\* TPayloadMeta.__instancecheck__(cls, inst) for an instance of the created
\* class c: the key is that of the instance's class; with no entry under it
\* the plain check, else whether the instance's class is the entry
InstanceCheck(t, c) ==
    LET repl_cls == CacheGet(class_cache, classes[c].key)
    IN  IF repl_cls = NoClass THEN TypeInstanceCheck(t, c)
        ELSE c = repl_cls

\* TSPayload.__eq__(self, other) on two instances
fixed_eq(self, other) ==
    IF ~InstanceCheck(CanonicalType(self.cls), other.cls) THEN Result(FALSE)
    ELSE LET keys == SlotKeys(self.cls)
             a == AttrGetter(keys, self.slots)
             b == AttrGetter(keys, other.slots)
         IN  IF ~a.ok THEN a
             ELSE IF ~b.ok THEN b
             ELSE Result(a.v = b.v)

\* what the last operation on an instance was and how it ended: the instance
\* (and the second one, or the type, it was applied to), the attribute and
\* the value given, the outcome, and the instance's fields before it
OpRec(op, i, other, name, val, out, pre) ==
    [op |-> op, i |-> i, other |-> other, name |-> name, val |-> val,
     ok |-> out.ok, exc |-> out.exc, res |-> out.v, pre |-> pre]

NoOp == OpRec("none", 0, 0, "", None, Result(None), << >>)

\* the values an attribute is given: None and a string of three characters
FieldValues == {None, Str("Bob", 3)}

\* the attribute names read and written: declared by some type, and by none
AttrNames == {"name", "number", "attr_not_exist"}

\* Type() for a fixed-field type, as FixedSpec explores it
ObjInstantiate(n) ==
    /\ Len(instances) < MaxObj
    /\ Instantiate(n)

\* setattr(instances[i], name, v)
SetAttr(i, name, v) ==
    /\ i \in DOMAIN instances
    /\ LET r == setattr(classes[instances[i].cls], instances[i].slots, name, v)
       IN  /\ last' = OpRec("setattr", i, 0, name, v, r, instances[i].slots)
           /\ instances' = IF r.ok THEN [instances EXCEPT ![i].slots = r.v] ELSE instances
    /\ UNCHANGED <<class_cache, classes, tpc, tcls, tobj, pobj, rpcVars, muxVars>>

\* getattr(instances[i], name)
GetAttr(i, name) ==
    /\ i \in DOMAIN instances
    /\ last' = OpRec("getattr", i, 0, name, None, getattr(instances[i].slots, name),
                     instances[i].slots)
    /\ UNCHANGED <<cacheVars, pobj, rpcVars, muxVars>>

\* instances[i].__getstate__()
GetState(i) ==
    /\ i \in DOMAIN instances
    /\ last' = OpRec("getstate", i, 0, "", None,
                     getstate(instances[i].cls, instances[i].slots), instances[i].slots)
    /\ UNCHANGED <<cacheVars, pobj, rpcVars, muxVars>>

\* state = instances[i].__getstate__(); fresh = Type(); fresh.__setstate__(state);
\* fresh == instances[i], where Type is the type instances[i] was made from
\* and its class is in the cache
restore(i) ==
    LET self == instances[i]
        cls == classes[CacheGet(class_cache, CacheKey(self.of))]
        fresh == NewInstance(self.of, CacheGet(class_cache, CacheKey(self.of)), cls)
        state == getstate(self.cls, self.slots)
    IN  IF ~state.ok THEN state
        ELSE LET set == setstate(cls, fresh.slots, state.v)
             IN  IF ~set.ok THEN set
                 ELSE fixed_eq([fresh EXCEPT !.slots = set.v], self)

Restore(i) ==
    /\ i \in DOMAIN instances
    /\ CacheGet(class_cache, CacheKey(instances[i].of)) # NoClass
    /\ last' = OpRec("restore", i, 0, "", None, restore(i), instances[i].slots)
    /\ UNCHANGED <<cacheVars, pobj, rpcVars, muxVars>>

\* the types asked about: the nominal classes, the created classes, TSPayload
Types ==
    {NominalType(n) : n \in NominalIds} \cup {CanonicalType(c) : c \in 1..MaxObj}
        \cup {BaseType}

\* isinstance(instances[i], t)
CheckInstance(i, t) ==
    /\ i \in DOMAIN instances
    /\ t.kind = "canonical" => t.id \in DOMAIN classes
    /\ last' = OpRec("isinstance", i, t, "", None,
                     Result(InstanceCheck(t, instances[i].cls)), instances[i].slots)
    /\ UNCHANGED <<cacheVars, pobj, rpcVars, muxVars>>

\* instances[i] == instances[j]
Compare(i, j) ==
    /\ i \in DOMAIN instances
    /\ j \in DOMAIN instances
    /\ last' = OpRec("eq", i, j, "", None, fixed_eq(instances[i], instances[j]),
                     instances[i].slots)
    /\ UNCHANGED <<cacheVars, pobj, rpcVars, muxVars>>

FixedNext ==
    \/ \E n \in NominalIds : ObjInstantiate(n)
    \/ \E i \in 1..MaxObj, name \in AttrNames, v \in FieldValues : SetAttr(i, name, v)
    \/ \E i \in 1..MaxObj, name \in AttrNames : GetAttr(i, name)
    \/ \E i \in 1..MaxObj : GetState(i)
    \/ \E i \in 1..MaxObj : Restore(i)
    \/ \E i \in 1..MaxObj, t \in Types : CheckInstance(i, t)
    \/ \E i \in 1..MaxObj, j \in 1..MaxObj : Compare(i, j)

\* An open-storage type: a direct subclass of TPayload with two fields.
PayloadSpec == << [name |-> "a", default |-> None], [name |-> "b", default |-> None] >>

\* a __dict__: the (name, value) pairs in the order the names were first set
NoObj == [made |-> FALSE, dict |-> << >>]

DictKeys(d) == {d[k][1] : k \in DOMAIN d}

\* d[name] = v
DictSet(d, name, v) ==
    IF name \in DictKeys(d)
    THEN [k \in DOMAIN d |-> IF d[k][1] = name THEN <<name, v>> ELSE d[k]]
    ELSE Append(d, <<name, v>>)

\* TPayload.__repr__: the class name and key=value for the items of __dict__
payload_repr(d) == [name |-> "Payload", items |-> d]

\* TPayload.__eq__ on two instances of the one class: isinstance(other,
\* self.__class__) holds, the class having no entry in the cache;
\* self.__dict__ == other.__dict__ compares the items whatever their order
payload_eq(d, e) == Range(d) = Range(e)

\* x = Payload(**kw), through the metaclass
OpenNew(x, kw) ==
    /\ ~pobj[x].made
    /\ LET r == MetaCall(ClassOf("Payload"), PayloadSpec, << >>, kw)
       IN  IF r.ok
           THEN /\ pobj' = [pobj EXCEPT ![x] =
                              [made |-> TRUE,
                               dict |-> [k \in DOMAIN PayloadSpec |->
                                           <<PayloadSpec[k].name, r.obj[PayloadSpec[k].name]>>]]]
                /\ last' = OpRec("new", x, 0, "", None, Result(None), << >>)
           ELSE /\ pobj' = pobj
                /\ last' = OpRec("new", x, 0, "", None, Raised("TypeError"), << >>)
    /\ UNCHANGED <<cacheVars, rpcVars, muxVars>>

\* setattr(x, name, v) on an open-storage instance; the other instance is 3 - x
OpenSetAttr(x, name, v) ==
    /\ pobj[x].made
    /\ pobj' = [pobj EXCEPT ![x].dict = DictSet(pobj[x].dict, name, v)]
    /\ last' = OpRec("setattr", x, 3 - x, name, v, Result(None),
                     [repr |-> payload_repr(pobj[x].dict),
                      eq |-> payload_eq(pobj[x].dict, pobj[3 - x].dict)])
    /\ UNCHANGED <<cacheVars, rpcVars, muxVars>>

OpenNext ==
    \/ \E x \in {1, 2}, names \in SUBSET {"a", "b"} :
          OpenNew(x, [f \in names |-> Str("Bob", 3)])
    \/ \E x \in {1, 2}, name \in {"a", "b", "extra"}, v \in FieldValues :
          OpenSetAttr(x, name, v)

CacheNext == \E n \in NominalIds : Instantiate(n)

ConcNext ==
    \/ \E t \in Threads, n \in NominalIds : TLookup(t, n)
    \/ \E t \in Threads : TCreate(t)
    \/ \E t \in Threads : TStore(t)
    \/ \E t \in Threads : TReturn(t)

ObjInit ==
    /\ pobj = [x \in {1, 2} |-> NoObj]
    /\ last = NoOp

Init == CacheInit /\ RpcInit /\ MuxInit /\ ObjInit

\* the client, the processor and their peers
Spec == Init /\ [][Next]_vars

\* instantiations of fixed-field types, one call at a time
CacheSpec == Init /\ [][CacheNext]_vars

\* instantiations of fixed-field types from concurrent execution contexts
ConcSpec == Init /\ [][ConcNext]_vars

\* registrations with a multiplexed processor and the requests it serves
MuxSpec == Init /\ [][MuxNext]_vars

\* fixed-field instances and what is done with them
FixedSpec == Init /\ [][FixedNext]_vars

\* open-storage instances and what is done with them
OpenSpec == Init /\ [][OpenNext]_vars

(***************************************************************************)
(* Claims about the class cache.                                           *)
(***************************************************************************)
SameKey(i, j) == CacheKey(instances[i].of) = CacheKey(instances[j].of)

\* the first instantiation made under the key of instance i
FirstUnder(i) ==
    CHOOSE j \in DOMAIN instances :
        /\ SameKey(i, j)
        /\ \A h \in DOMAIN instances : SameKey(i, h) => j <= h

C1State ==
    /\ \A c, d \in DOMAIN classes : classes[c].key = classes[d].key => c = d
    /\ \A k \in Keys : class_cache[k] # NoClass =>
            /\ class_cache[k] \in DOMAIN classes
            /\ classes[class_cache[k]].key = k
    /\ \A i \in DOMAIN instances :
            /\ instances[i].cls = class_cache[CacheKey(instances[i].of)]
            /\ instances[i].cls = instances[FirstUnder(i)].cls
            /\ classes[instances[i].cls].from = instances[FirstUnder(i)].of
            /\ classes[instances[i].cls].slots = Nominal[instances[FirstUnder(i)].of].spec

C1Step ==
    \A k \in Keys : class_cache[k] # NoClass => class_cache'[k] = class_cache[k]

\* C1: run one call at a time, the cache holds one canonical class per
\* (module, name) key: the first instantiation under a key creates and stores
\* the class from its own spec, every later instantiation under the key
\* returns an instance of that stored class whatever spec the later caller
\* carries, and an entry once stored is never replaced or removed.
C1_OneCanonicalClass == [](C1State) /\ [][C1Step]_vars

\* two callers with one key and different specs got instances of one class
C1_Witness ==
    \E i, j \in DOMAIN instances :
        /\ i < j
        /\ SameKey(i, j)
        /\ Nominal[instances[i].of].spec # Nominal[instances[j].of].spec
        /\ instances[i].cls = instances[j].cls

\* C2: under every interleaving of lookup, creation and store by concurrent
\* callers, at most one class is ever created per key and all instances made
\* under one key have the identical class.
C2_OneClassUnderConcurrency ==
    /\ \A c, d \in DOMAIN classes : classes[c].key = classes[d].key => c = d
    /\ \A i, j \in DOMAIN instances : SameKey(i, j) => instances[i].cls = instances[j].cls

(***************************************************************************)
(* Claims about the client and the processor.                              *)
(***************************************************************************)

\* C3: the seqId in the first CALL header a client writes is 0, and every
\* later call writes a seqId strictly greater than the call before it.
C3_SeqIdIncrements ==
    hdrs # << >> =>
        /\ hdrs[1] = 0
        /\ \A i \in 2..Len(hdrs) : hdrs[i] > hdrs[i - 1]

CallDone == call.kind \in {"return", "raise"}

\* C4: for a oneway method _req writes and flushes the request and returns
\* nothing without reading; process writes no message for it.
C4_Oneway ==
    /\ (CallDone /\ Service[call.api].oneway) =>
            /\ call.sent
            /\ call.kind = "return"
            /\ call.val = None
            /\ call.reads = 0
    /\ (proc.known /\ Service[proc.api].oneway) => proc.wrote = << >>

\* C5: on an undeclared method name process skips the struct, reads the
\* message end, writes exactly one EXCEPTION message carrying
\* TApplicationException(UNKNOWN_METHOD), flushes, and calls no handler.
C5_UnknownMethod ==
    (proc.req # 0 /\ ~proc.known) =>
        /\ proc.skipped
        /\ proc.ended
        /\ ~proc.invoked
        /\ Len(proc.wrote) = 1
        /\ proc.flushed = 1
        /\ proc.wrote[1].mtype = EXCEPTION
        /\ "type" \in DOMAIN proc.wrote[1].body
        /\ proc.wrote[1].body["type"] = IntV(UNKNOWN_METHOD)

\* the throws fields of api whose class the exception e is an instance of
Matching(e, api) ==
    {i \in DOMAIN Service[api].throws : IsInstance(e, Service[api].throws[i].cls)}

RaisedDeclared ==
    /\ proc.invoked
    /\ proc.hout = "raise"
    /\ Matching(proc.hval, proc.api) # {}

RaisedUndeclared ==
    /\ proc.invoked
    /\ proc.hout = "raise"
    /\ Matching(proc.hval, proc.api) = {}

\* C6: when the handler of a two-way method raises a declared exception,
\* exactly one result field is set, the matching one of smallest field id,
\* success stays unset, and exactly one message, a REPLY with that result, is
\* sent.
C6_DeclaredException ==
    (RaisedDeclared /\ ~Service[proc.api].oneway) =>
        LET f == Service[proc.api].throws[MinOf(Matching(proc.hval, proc.api))].name
        IN  /\ {g \in DOMAIN proc.result : proc.result[g] # None} = {f}
            /\ proc.result[f] = proc.hval
            /\ Len(proc.wrote) = 1
            /\ proc.wrote[1].mtype = REPLY
            /\ proc.wrote[1].body = (f :> proc.hval)

\* C7: when the handler raises an exception that no declared throws field
\* matches, process lets that same exception propagate, sets no result field
\* and writes no message.
C7_UndeclaredException ==
    RaisedUndeclared =>
        /\ proc.raised = proc.hval
        /\ proc.assigned = {}
        /\ proc.result = NewResult(proc.api).obj
        /\ proc.wrote = << >>
        /\ proc.flushed = 0

\* a handler of a method that declares no throws raised, and process ended
C7_Witness ==
    /\ RaisedUndeclared
    /\ Service[proc.api].throws = << >>
    /\ proc.raised = proc.hval

\* the declared non-success fields the reply sets, by position
SetThrows(api, body) ==
    {i \in DOMAIN ResultFields(api) :
        ResultFields(api)[i] # "success" /\ ResultFields(api)[i] \in DOMAIN body}

\* C8: the outcome of _recv, rule by rule: an EXCEPTION reply raises the
\* decoded TApplicationException; else a set success is returned; else a
\* result without fields returns nothing; else the first set throws field is
\* raised; else, with a success field declared, MISSING_RESULT is raised.
C8_RecvRules ==
    (CallDone /\ call.reads = 1) =>
        LET m == call.reply
            fields == ResultFields(call.api)
        IN  IF m.mtype = EXCEPTION
            THEN /\ call.kind = "raise"
                 /\ call.val.s = "TApplicationException"
                 /\ call.decoded = "appexc"
                 /\ \A f \in DOMAIN m.body : call.app[f] = m.body[f]
            ELSE IF "success" \in DOMAIN m.body
            THEN call.kind = "return" /\ call.val = m.body["success"]
            ELSE IF Len(fields) = 0
            THEN call.kind = "return" /\ call.val = None
            ELSE IF SetThrows(call.api, m.body) # {}
            THEN /\ call.kind = "raise"
                 /\ call.val = m.body[fields[MinOf(SetThrows(call.api, m.body))]]
            ELSE IF "success" \in Range(fields)
            THEN /\ call.kind = "raise"
                 /\ call.val.s = "TApplicationException"
                 /\ call.app["type"] = IntV(MISSING_RESULT)
            ELSE TRUE

\* C9: client and processor end to end: a value the handler of a method with
\* a return type returns is what the call returns, a declared exception the handler raises is what the call
\* raises (carried in a REPLY), a TApplicationException is raised only on an
\* EXCEPTION message or a result with no field set, and a call never gets
\* another request's outcome.
C9_EndToEnd ==
    (CallDone /\ call.reads = 1 /\ call.reply.by = "processor") =>
        LET m == call.reply
        IN  /\ m.req = call.req
            /\ (m.hout = "return" /\ m.hval # None /\ Service[call.api].ret) =>
                    call.kind = "return" /\ call.val = m.hval
            /\ m.hout = "raise" =>
                    call.kind = "raise" /\ call.val = m.hval /\ m.mtype = REPLY
            /\ (call.kind = "raise" /\ call.val.s = "TApplicationException") =>
                    m.mtype = EXCEPTION \/ m.body = << >>

(***************************************************************************)
(* Claims about the multiplexed processor.                                 *)
(***************************************************************************)

\* C10: registering a name that is already registered raises
\* TApplicationException(INTERNAL_ERROR) and leaves the mapping as it was;
\* registering a new name adds exactly that binding.
C10_RegisterOnce ==
    reg.name # "" =>
        IF reg.before[reg.name] # NoProcessor
        THEN /\ reg.raised.s = "TApplicationException"
             /\ reg.app["type"] = IntV(INTERNAL_ERROR)
             /\ processors = reg.before
        ELSE /\ reg.raised = None
             /\ processors = [reg.before EXCEPT ![reg.name] = reg.processor]

\* the multiplexed processor has processed a request
MuxRan == mproc.mtype # 0

\* the request read was named "S:m": one service name, one separator, one method
WellNamed == Len(mproc.name) = 3 /\ mproc.name[2] = SEPARATOR /\ mproc.name[1] # SEPARATOR
                /\ mproc.name[3] # SEPARATOR

\* C11: for a request named "S:m" with S registered, the only handler that
\* can be invoked is method m of the handler of the processor registered
\* under S, with the args type of that processor's service; no handler of a
\* processor registered under another name is invoked, even if its service
\* declares a method m too.
C11_RoutesToRegistered ==
    mproc.invoked =>
        /\ WellNamed
        /\ Registered(processors, mproc.name[1])
        /\ mproc.handler = processors[mproc.name[1]]
        /\ mproc.method = mproc.name[3]
        /\ mproc.method \in DOMAIN MuxServices[ServiceOf[processors[mproc.name[1]]]]
        /\ mproc.argscls = SvcCls(ServiceOf[processors[mproc.name[1]]], mproc.name[3], 1)
        /\ Len(mproc.hargs) =
              Len(MuxServices[ServiceOf[processors[mproc.name[1]]]][mproc.name[3]].args)

\* "Addr:get" was served by the handler registered under Addr while another
\* processor, whose service declares another get, is registered under Calc
C11_Witness ==
    /\ mproc.invoked
    /\ mproc.name = <<"Addr", SEPARATOR, "get">>
    /\ Registered(processors, "Calc")
    /\ processors["Calc"] # processors["Addr"]
    /\ ServiceOf[processors["Calc"]] # ServiceOf[processors["Addr"]]
    /\ mproc.handler = processors["Addr"]

C12State ==
    (MuxRan /\ (mproc.mtype \notin {CALL, ONEWAY} \/ SEPARATOR \notin Range(mproc.name))) =>
        /\ mproc.raised.tag = "exc"
        /\ mproc.raised.s = "TException"
        /\ mproc.wrote = << >>
        /\ ~mproc.invoked

C12Step == mproc' # mproc => processors' = processors

\* C12: a request header whose kind is not CALL or ONEWAY, or whose name has
\* no separator, makes process raise a TException to its caller: nothing is
\* written, no handler is invoked and the processors mapping is unchanged.
C12_FatalProtocolError == [](C12State) /\ [][C12Step]_vars

\* a REPLY header naming a registered service was refused
C12_Witness ==
    /\ mproc.mtype = REPLY
    /\ HasSeparator(mproc.name)
    /\ Registered(processors, mproc.name[1])
    /\ mproc.raised.s = "TException"
    /\ mproc.wrote = << >>

\* C13: a well-framed request whose service name is not registered is
\* skipped to its message end and answered by exactly one EXCEPTION message
\* carrying TApplicationException(UNKNOWN_METHOD) and the request's seqid; no
\* handler of any registered processor is invoked.
C13_UnregisteredService ==
    (MuxRan /\ mproc.mtype \in {CALL, ONEWAY} /\ WellNamed
            /\ ~Registered(processors, mproc.name[1])) =>
        /\ mproc.skipped
        /\ mproc.ended
        /\ ~mproc.invoked
        /\ Len(mproc.wrote) = 1
        /\ mproc.wrote[1].mtype = EXCEPTION
        /\ mproc.wrote[1].seqid = mproc.seqid
        /\ "type" \in DOMAIN mproc.wrote[1].body
        /\ mproc.wrote[1].body["type"] = IntV(UNKNOWN_METHOD)

\* the request read was named "S:m", a processor was found under S when it was
\* read, and the service of that processor declares no method m
UndeclaredOfRegistered ==
    /\ MuxRan
    /\ mproc.mtype \in {CALL, ONEWAY}
    /\ WellNamed
    /\ mproc.target # NoProcessor
    /\ mproc.target = processors[mproc.name[1]]
    /\ mproc.name[3] \notin DOMAIN MuxServices[ServiceOf[mproc.target]]

\* C21: a well-framed request "S:m" with S registered and m not declared by
\* the service of the processor registered under S is treated as an unknown
\* method: the payload is skipped, exactly one EXCEPTION message carrying
\* TApplicationException(UNKNOWN_METHOD) is written, no handler is invoked
\* and no other error is raised to the caller of process.
C21_UndeclaredMethod ==
    UndeclaredOfRegistered =>
        /\ mproc.skipped
        /\ mproc.ended
        /\ ~mproc.invoked
        /\ mproc.raised = None
        /\ Len(mproc.wrote) = 1
        /\ mproc.wrote[1].mtype = EXCEPTION
        /\ "type" \in DOMAIN mproc.wrote[1].body
        /\ mproc.wrote[1].body["type"] = IntV(UNKNOWN_METHOD)

(***************************************************************************)
(* Claims about instances.                                                 *)
(***************************************************************************)

\* the value a __dict__ holds under a name
DictGet(d, f) == d[CHOOSE k \in DOMAIN d : d[k][1] = f][2]

\* the two open-storage instances exist and agree on every declared field
DeclaredEqual ==
    /\ pobj[1].made
    /\ pobj[2].made
    /\ \A f \in FieldNames(PayloadSpec) :
            DictGet(pobj[1].dict, f) = DictGet(pobj[2].dict, f)

\* C14: for two open-storage instances of one type whose declared fields are
\* equal, setting on one of them an attribute that is not a declared field
\* leaves them equal, either way round, and leaves the repr of the modified
\* instance as it was.
C14_ExtraneousStateExcluded ==
    (last.op = "setattr" /\ last.name \notin FieldNames(PayloadSpec) /\ DeclaredEqual) =>
        /\ payload_eq(pobj[last.i].dict, pobj[last.other].dict)
        /\ payload_eq(pobj[last.other].dict, pobj[last.i].dict)
        /\ payload_repr(pobj[last.i].dict) = last.pre.repr

\* the declared fields of the type of instance i, in declared order
Declared(i) == classes[instances[i].cls].slots

\* C15: for a fixed-field type of any number of fields and any values,
\* __getstate__ returns the (name, value) pairs of exactly the declared
\* fields in declared order, and __setstate__ of them on a fresh instance of
\* the same registered type gives an instance equal to the original.
C15_PersistenceRoundTrip ==
    /\ last.op = "getstate" =>
            /\ last.ok
            /\ last.res = [k \in DOMAIN Declared(last.i) |->
                              <<Declared(last.i)[k], last.pre[Declared(last.i)[k]]>>]
    /\ last.op = "restore" =>
            /\ last.ok
            /\ last.res = TRUE

\* C16: on a fixed-field instance, after any reads and writes, a write to a
\* name that is not a declared field fails with an attribute error and leaves
\* every field as it was, a read of such a name fails with an attribute
\* error, and a write to a declared field succeeds and changes that field only.
C16_FixedFieldGuard ==
    /\ \A i \in DOMAIN instances : DOMAIN instances[i].slots = Range(Declared(i))
    /\ last.op = "setattr" =>
            IF last.name \in Range(Declared(last.i))
            THEN /\ last.ok
                 /\ instances[last.i].slots = [last.pre EXCEPT ![last.name] = last.val]
            ELSE /\ ~last.ok
                 /\ last.exc = "AttributeError"
                 /\ instances[last.i].slots = last.pre
    /\ (last.op = "getattr" /\ last.name \notin Range(Declared(last.i))) =>
            /\ ~last.ok
            /\ last.exc = "AttributeError"

\* a write to an undeclared name was refused on an instance one of whose
\* declared fields an earlier write had set
C16_Witness ==
    /\ last.op = "setattr"
    /\ last.name \notin Range(Declared(last.i))
    /\ ~last.ok
    /\ \E f \in Range(Declared(last.i)) : instances[last.i].slots[f] # None

\* C20: isinstance reports an instance as of the type asked for only when
\* the instance's class is the cache's entry under that type's own key, or
\* is that type or derives from it; so an instance of a type with another
\* key, unrelated by inheritance, is not an instance of it, and instances of
\* two such types never compare equal.
C20_InstanceCheckDistinguishes ==
    /\ (last.op = "isinstance" /\ last.res = TRUE) =>
            \/ TypeInstanceCheck(last.other, instances[last.i].cls)
            \/ /\ last.other.kind # "TSPayload"
               /\ class_cache[TypeKey(last.other)] = instances[last.i].cls
    /\ (last.op = "eq" /\ classes[instances[last.i].cls].key
                            # classes[instances[last.other].cls].key) =>
            ~(last.ok /\ last.res = TRUE)

(***************************************************************************)
(* More claims about the client and the processor.                         *)
(***************************************************************************)

\* C17: in _req the i-th positional argument goes to the args field with the
\* i-th smallest field id, each keyword argument goes to the field it names,
\* and a field given both ways is written with the keyword argument's value.
C17Step ==
    \A api \in thrift_services, npos \in 0..2 :
        \A kwnames \in SUBSET Range(Service[api].args) :
            (ClientCall(api, npos, kwnames) /\ Len(c2s') > Len(c2s)) =>
                LET body == c2s'[Len(c2s')].body
                    names == Service[api].args
                IN  /\ \A f \in kwnames : f \in DOMAIN body /\ body[f] = KwArg
                    /\ \A i \in DOMAIN names :
                            (i <= npos /\ names[i] \notin kwnames) =>
                                names[i] \in DOMAIN body /\ body[names[i]] = PosArg(i)

C17_ArgumentBinding == [][C17Step]_vars

\* C18: for every request process handles, at most one message is written;
\* a message written is a REPLY or an EXCEPTION with the method name and the
\* seqid of the request header; a REPLY is written only after the handler
\* has run; the handler runs only after the args struct and the message end
\* have been read.
C18_OneReplyPerRequest ==
    proc.req # 0 =>
        /\ Len(proc.wrote) <= 1
        /\ proc.flushed = Len(proc.wrote)
        /\ \A k \in DOMAIN proc.wrote :
                /\ proc.wrote[k].mtype \in {REPLY, EXCEPTION}
                /\ proc.wrote[k].api = proc.api
                /\ proc.wrote[k].seqid = proc.seqid
                /\ proc.wrote[k].mtype = REPLY =>
                        proc.invoked /\ proc.hout \in {"return", "raise"}
        /\ proc.invoked => proc.known /\ proc.ended /\ ~proc.skipped

\* a REPLY to another peer's request, with the seqid of that request
C18_Witness ==
    /\ proc.invoked
    /\ Len(proc.wrote) = 1
    /\ proc.wrote[1].mtype = REPLY
    /\ proc.seqid \in PeerSeqIds
    /\ proc.wrote[1].seqid = proc.seqid

\* C19: every call writes one whole CALL message and flushes it before it
\* reads; a two-way call reads the reply's header, body and message end once
\* each before it returns or raises, on every path through _recv; so no
\* request is written while a reply is not read to its end.
C19_SequentialAligned ==
    /\ cpc = "waiting" => call.sent /\ call.reads = 0
    /\ CallDone =>
            /\ call.sent
            /\ Service[call.api].oneway => call.reads = 0
            /\ ~Service[call.api].oneway =>
                    /\ call.reads = 1
                    /\ call.decoded # "none"
                    /\ call.ended

====
